---- MODULE Spec2Model ----
(***************************************************************************)
(* Model of cockroachload's load generator (load/load.go): the iteration   *)
(* driver, the record-count planner and validator, the single-record       *)
(* transactional mutators, the ACE upsert and the teardown, run against a  *)
(* relational store through the retrying transaction executor              *)
(* crdb.ExecuteTx.                                                         *)
(*                                                                         *)
(* A transaction is an action with three outcomes: the attempt commits     *)
(* (or its body returns a non-retryable error and is rolled back), the     *)
(* attempt hits a retryable conflict and is rolled back and re-run, or the *)
(* store reports a non-retryable error.  The store gives every committed   *)
(* row a fresh surrogate id (unique_rowid()); SELECTs without ORDER BY     *)
(* return rows in primary-key order.                                       *)
(***************************************************************************)
EXTENDS Integers, Sequences, FiniteSets, TLC

VARIABLES
    store,      \* committed contents of the five tables and the id source
    pc,         \* position of the driver
    mode,       \* "custom" (-custom flag) or "auto" (run)
    iteration,  \* run: the iteration counter
    counts,     \* the recordCount of the current iteration
    i,          \* outer loop index (ii, group, permission)
    j,          \* inner loop index (ii of a group's slots, user, group)
    a,          \* index into the action list of allow*AccessToResource
    user,       \* assignUsersToGroups: the running user counter
    attempts,   \* rolled-back attempts of the transaction in progress
    keys,       \* uids / gids / rids collected by the discovery in progress
    kidx,       \* position of the range loop over keys
    err,        \* prepareData returned an error
    cerr,       \* removeData returned an error
    local,      \* closure variables actionstr, aceId as the last attempt left them
    teardowns,  \* history: removeData calls of the current iteration
    granted,    \* history: actions granted per principal kind (upsert harness)
    last,       \* history: the last committed upsert (upsert harness)
    conc,       \* the two concurrent upsert transactions (concurrent harness)
    query       \* the query program: open result set, rows.Err, return value

vars == <<store, pc, mode, iteration, counts, i, j, a, user, attempts, keys,
          kidx, err, cerr, local, teardowns, granted, last, conc,
          query>>

(***************************************************************************)
(* Bounds of the model.                                                    *)
(***************************************************************************)
MaxUsers == 3
MaxGroups == 2
MaxMembers == 2
MaxUserPermissions == 1
MaxGroupPermissions == 1
MaxIteration == 5
MaxRetries == 1
MaxGrants == 3
MaxCounter == 100

(***************************************************************************)
(* Record types (load.go 223-234).                                         *)
(***************************************************************************)
Users == 0
Groups == 1
Members == 2
UserPermissions == 3
GroupPermissions == 4
LastRecordType == 5

RecordTypes == 0 .. (LastRecordType - 1)

\* A recordCount with the given entries.
RecordCount(u, g, m, up, gp) ==
    (Users :> u) @@ (Groups :> g) @@ (Members :> m) @@ (UserPermissions :> up)
        @@ (GroupPermissions :> gp)

\* The actions granted by allow*AccessToResource, in loop order.
Actions == <<"create", "read", "update", "delete">>

\* SQL NULL in an id column; surrogate ids start at 1.
NULL == 0

\* strconv.Itoa
Itoa(n) == ToString(n)

userResourceName(rid) == "user-resource-" \o Itoa(rid)

groupResourceName(rid) == "group-resource-" \o Itoa(rid)

(***************************************************************************)
(* The store: the five tables of the schema, empty after createSchema.     *)
(***************************************************************************)
EmptyStore ==
    [users |-> {}, groups |-> {}, resources |-> {}, user_groups |-> {},
     aces |-> {}, nextId |-> 1]

AllEmpty(st) ==
    /\ st.users = {}
    /\ st.groups = {}
    /\ st.user_groups = {}
    /\ st.resources = {}
    /\ st.aces = {}

\* Result of a transaction body: the transaction's view of the store after
\* the body's statements, whether the body returned an error, and the
\* closure variables actionstr / aceId as the body left them.
ZeroLocal == [actionstr |-> "", aceId |-> NULL]

Ok(st) == [st |-> st, err |-> FALSE, local |-> ZeroLocal]

Error(st) == [st |-> st, err |-> TRUE, local |-> ZeroLocal]

\* SELECT id FROM <table> WHERE <key> LIKE $1 ; the business keys hold no
\* LIKE wildcard, so the pattern matches exactly the equal key.
IdsByKey(rows, key) == {r.id : r \in {x \in rows : x.key = key}}

\* QueryRow(...).Scan(&id): the first row, sql.ErrNoRows when there is none.
ScanId(ids) == CHOOSE id \in ids : \A other \in ids : id <= other

\* addUser's body, as a mutant that numbers the users from 1.
addUserOneBased(st, userid) ==
    LET uid == Itoa(userid + 1)
    IN  IF \E u \in st.users : u.key = uid
        THEN Error(st)
        ELSE Ok([st EXCEPT !.users = @ \cup {[id |-> st.nextId, key |-> uid]},
                           !.nextId = @ + 1])

\* addUser's transaction body: INSERT INTO users, uid unique.
addUser(st, userid) ==
    LET uid == Itoa(userid)
    IN  IF \E u \in st.users : u.key = uid
        THEN Error(st)
        ELSE Ok([st EXCEPT !.users = @ \cup {[id |-> st.nextId, key |-> uid]},
                           !.nextId = @ + 1])

\* addGroup's transaction body: INSERT INTO groups, gid unique.
addGroup(st, groupid) ==
    LET gid == Itoa(groupid)
    IN  IF \E g \in st.groups : g.key = gid
        THEN Error(st)
        ELSE Ok([st EXCEPT !.groups = @ \cup {[id |-> st.nextId, key |-> gid]},
                           !.nextId = @ + 1])

\* addResource's transaction body: INSERT INTO resources, rid unique.
addResource(st, resource) ==
    IF \E r \in st.resources : r.key = resource
    THEN Error(st)
    ELSE Ok([st EXCEPT !.resources = @ \cup {[id |-> st.nextId, key |-> resource]},
                       !.nextId = @ + 1])

\* addUserToGroup's transaction body: look both ids up, INSERT INTO
\* user_groups with primary key (user_id, group_id).
addUserToGroup(st, group, usr) ==
    LET userIds == IdsByKey(st.users, Itoa(usr))
        groupIds == IdsByKey(st.groups, Itoa(group))
    IN  IF userIds = {} THEN Error(st)
        ELSE IF groupIds = {} THEN Error(st)
        ELSE LET row == [user_id |-> ScanId(userIds), group_id |-> ScanId(groupIds)]
             IN  IF row \in st.user_groups
                 THEN Error(st)
                 ELSE Ok([st EXCEPT !.user_groups = @ \cup {row}])

(***************************************************************************)
(* The ACE upsert (allowUserAccessToResource / allowGroupAccessToResource).*)
(***************************************************************************)
\* SELECT actions, id FROM aces WHERE <principal column> = $1 AND resource_id = $2
AcesOf(st, kind, principalId, resourceId) ==
    {e \in st.aces :
        /\ e.resource_id = resourceId
        /\ IF kind = "user" THEN e.user_id = principalId ELSE e.group_id = principalId}

\* The ACE row the body inserts: the principal in its own column, NULL in
\* the other one.
NewAce(st, kind, principalId, resourceId, actionstr) ==
    [id |-> st.nextId,
     user_id |-> IF kind = "user" THEN principalId ELSE NULL,
     group_id |-> IF kind = "group" THEN principalId ELSE NULL,
     resource_id |-> resourceId,
     actions |-> actionstr]

\* The constraints user_resource_unique and group_resource_unique reject
\* the row (NULLs never conflict).
AceConflict(st, row) ==
    \E e \in st.aces :
        /\ e.resource_id = row.resource_id
        /\ \/ e.user_id # NULL /\ e.user_id = row.user_id
           \/ e.group_id # NULL /\ e.group_id = row.group_id

\* The values of the closure variables actionstr and aceId when an attempt
\* starts: both are declared inside the transaction closure, so every
\* attempt starts from the zero values, whatever the previous one left.
LeakedLocal(previous) == previous

AttemptLocal(previous) == ZeroLocal

\* The body of the upsert past the two id lookups, as a mutant that joins
\* the new action in front of the stored ones.
UpsertAcePrepend(st, kind, principalId, resourceId, action, start) ==
    LET found == AcesOf(st, kind, principalId, resourceId)
        row == CHOOSE e \in found : \A o \in found : e.id <= o.id
        actionstr == IF found = {} THEN start.actionstr ELSE row.actions
        aceId == IF found = {} THEN start.aceId ELSE row.id
    IN  IF Len(actionstr) > 0
        THEN LET updated == action \o "," \o actionstr
             IN  [st |-> [st EXCEPT !.aces =
                        {IF e.id = aceId THEN [e EXCEPT !.actions = updated] ELSE e : e \in @}],
                  err |-> FALSE,
                  local |-> [actionstr |-> updated, aceId |-> aceId]]
        ELSE LET new == NewAce(st, kind, principalId, resourceId, action)
             IN  IF AceConflict(st, new)
                 THEN [st |-> st, err |-> TRUE,
                       local |-> [actionstr |-> action, aceId |-> aceId]]
                 ELSE [st |-> [st EXCEPT !.aces = @ \cup {new}, !.nextId = @ + 1],
                       err |-> FALSE,
                       local |-> [actionstr |-> action, aceId |-> aceId]]

\* The body of the upsert past the two id lookups, as a mutant that never
\* looks the existing row up and inserts into a table without the two
\* uniqueness constraints.
UpsertAceBlind(st, kind, principalId, resourceId, action, start) ==
    LET new == NewAce(st, kind, principalId, resourceId, action)
    IN  [st |-> [st EXCEPT !.aces = @ \cup {new}, !.nextId = @ + 1],
         err |-> FALSE,
         local |-> [actionstr |-> action, aceId |-> NULL]]

\* The body of the upsert past the two id lookups, as a mutant whose UPDATE
\* stores the new action alone.
UpsertAceOverwrite(st, kind, principalId, resourceId, action, start) ==
    LET found == AcesOf(st, kind, principalId, resourceId)
        row == CHOOSE e \in found : \A o \in found : e.id <= o.id
        actionstr == IF found = {} THEN start.actionstr ELSE row.actions
        aceId == IF found = {} THEN start.aceId ELSE row.id
    IN  IF Len(actionstr) > 0
        THEN [st |-> [st EXCEPT !.aces =
                   {IF e.id = aceId THEN [e EXCEPT !.actions = action] ELSE e : e \in @}],
              err |-> FALSE,
              local |-> [actionstr |-> action, aceId |-> aceId]]
        ELSE LET new == NewAce(st, kind, principalId, resourceId, action)
             IN  IF AceConflict(st, new)
                 THEN [st |-> st, err |-> TRUE,
                       local |-> [actionstr |-> action, aceId |-> aceId]]
                 ELSE [st |-> [st EXCEPT !.aces = @ \cup {new}, !.nextId = @ + 1],
                       err |-> FALSE,
                       local |-> [actionstr |-> action, aceId |-> aceId]]

\* The body of the upsert past the two id lookups: find the ACE of the
\* pair (Scan leaves actionstr and aceId alone on sql.ErrNoRows), then
\* UPDATE the row found or INSERT a new one.
UpsertAce(st, kind, principalId, resourceId, action, start) ==
    LET found == AcesOf(st, kind, principalId, resourceId)
        row == CHOOSE e \in found : \A o \in found : e.id <= o.id
        actionstr == IF found = {} THEN start.actionstr ELSE row.actions
        aceId == IF found = {} THEN start.aceId ELSE row.id
    IN  IF Len(actionstr) > 0
        THEN LET updated == actionstr \o "," \o action
             IN  [st |-> [st EXCEPT !.aces =
                        {IF e.id = aceId THEN [e EXCEPT !.actions = updated] ELSE e : e \in @}],
                  err |-> FALSE,
                  local |-> [actionstr |-> updated, aceId |-> aceId]]
        ELSE LET new == NewAce(st, kind, principalId, resourceId, action)
             IN  IF AceConflict(st, new)
                 THEN [st |-> st, err |-> TRUE,
                       local |-> [actionstr |-> action, aceId |-> aceId]]
                 ELSE [st |-> [st EXCEPT !.aces = @ \cup {new}, !.nextId = @ + 1],
                       err |-> FALSE,
                       local |-> [actionstr |-> action, aceId |-> aceId]]

\* One transaction body of allowUserAccessToResource.
allowUserAccessToResource(st, resource, uid, action, start) ==
    LET resourceIds == IdsByKey(st.resources, resource)
        userIds == IdsByKey(st.users, Itoa(uid))
    IN  IF resourceIds = {} THEN Error(st)
        ELSE IF userIds = {} THEN Error(st)
        ELSE UpsertAce(st, "user", ScanId(userIds), ScanId(resourceIds), action, start)

\* One transaction body of allowGroupAccessToResource.
allowGroupAccessToResource(st, resource, gid, action, start) ==
    LET resourceIds == IdsByKey(st.resources, resource)
        groupIds == IdsByKey(st.groups, Itoa(gid))
    IN  IF resourceIds = {} THEN Error(st)
        ELSE IF groupIds = {} THEN Error(st)
        ELSE UpsertAce(st, "group", ScanId(groupIds), ScanId(resourceIds), action, start)

(***************************************************************************)
(* Teardown bodies.                                                        *)
(***************************************************************************)
\* The rows of a table in primary-key order: the n-th row is the one with
\* n - 1 rows of a smaller id before it.
RowsInOrder(rows) ==
    [n \in 1 .. Cardinality(rows) |->
        CHOOSE r \in rows : Cardinality({o \in rows : o.id < r.id}) = n - 1]

\* The body of findUsers / findGroups / findResources: every business key
\* of the table is appended to the slice the closure captured.
AppendKeys(collected, rows) ==
    collected \o [n \in 1 .. Cardinality(rows) |-> RowsInOrder(rows)[n].key]

\* removeUser's body, as a mutant that leaves the user's memberships in place.
removeUserKeepsMemberships(st, uid) ==
    LET ids == IdsByKey(st.users, uid)
    IN  IF ids = {} THEN Error(st)
        ELSE LET id == ScanId(ids)
             IN  Ok([st EXCEPT
                    !.aces = {e \in @ : e.user_id # id},
                    !.users = {u \in @ : u.id # id}])

\* removeUser's body, as a mutant that leaves the user row in place.
removeUserKeepsRow(st, uid) ==
    LET ids == IdsByKey(st.users, uid)
    IN  IF ids = {} THEN Error(st)
        ELSE LET id == ScanId(ids)
             IN  Ok([st EXCEPT
                    !.user_groups = {m \in @ : m.user_id # id},
                    !.aces = {e \in @ : e.user_id # id}])

\* removeUser's body.
removeUser(st, uid) ==
    LET ids == IdsByKey(st.users, uid)
    IN  IF ids = {} THEN Error(st)
        ELSE LET id == ScanId(ids)
             IN  Ok([st EXCEPT
                    !.user_groups = {m \in @ : m.user_id # id},
                    !.aces = {e \in @ : e.user_id # id},
                    !.users = {u \in @ : u.id # id}])

\* removeGroup's body.
removeGroup(st, gid) ==
    LET ids == IdsByKey(st.groups, gid)
    IN  IF ids = {} THEN Error(st)
        ELSE LET id == ScanId(ids)
             IN  Ok([st EXCEPT
                    !.user_groups = {m \in @ : m.group_id # id},
                    !.aces = {e \in @ : e.group_id # id},
                    !.groups = {g \in @ : g.id # id}])

\* removeResource's body.
removeResource(st, rid) ==
    LET ids == IdsByKey(st.resources, rid)
    IN  IF ids = {} THEN Error(st)
        ELSE LET id == ScanId(ids)
             IN  Ok([st EXCEPT
                    !.aces = {e \in @ : e.resource_id # id},
                    !.resources = {r \in @ : r.id # id}])

(***************************************************************************)
(* Validator and planner.                                                  *)
(***************************************************************************)
\* sane, as a mutant whose member bound is one too large.
saneMemberBoundOffByOne(c) ==
    IF c[Members] > 0 /\ c[Groups] = 0 THEN FALSE
    ELSE IF c[Members] > 0 /\ c[Users] = 0 THEN FALSE
    ELSE IF c[Members] > c[Users] + 1 THEN FALSE
    ELSE IF c[UserPermissions] > 0 /\ c[Users] = 0 THEN FALSE
    ELSE IF c[GroupPermissions] > 0 /\ c[Groups] = 0 THEN FALSE
    ELSE TRUE

\* sane, as a mutant that lets a group have more members than there are users.
saneNoMemberBound(c) ==
    IF c[Members] > 0 /\ c[Groups] = 0 THEN FALSE
    ELSE IF c[Members] > 0 /\ c[Users] = 0 THEN FALSE
    ELSE IF c[UserPermissions] > 0 /\ c[Users] = 0 THEN FALSE
    ELSE IF c[GroupPermissions] > 0 /\ c[Groups] = 0 THEN FALSE
    ELSE TRUE

\* recordCount.sane: the first failing check returns false.
sane(c) ==
    IF c[Members] > 0 /\ c[Groups] = 0 THEN FALSE
    ELSE IF c[Members] > 0 /\ c[Users] = 0 THEN FALSE
    ELSE IF c[Members] > c[Users] THEN FALSE
    ELSE IF c[UserPermissions] > 0 /\ c[Users] = 0 THEN FALSE
    ELSE IF c[GroupPermissions] > 0 /\ c[Groups] = 0 THEN FALSE
    ELSE TRUE

RECURSIVE Pow2(_)
Pow2(n) == IF n = 0 THEN 1 ELSE 2 * Pow2(n - 1)

\* iteration >> n, for a non-negative iteration
ShiftRight(n, bits) == n \div Pow2(bits)

\* iteration & (1 << rt) != 0, for a non-negative iteration
BitSet(n, rt) == (n \div Pow2(rt)) % 2 = 1

\* recordCountForIteration, as a mutant that adds 1 instead of 20 for a set bit.
recordCountAddsOne(it) ==
    LET baseline == ShiftRight(it, LastRecordType)
    IN  IF baseline = it
        THEN [rt \in RecordTypes |-> 0]
        ELSE [rt \in RecordTypes |->
                baseline * 20 + (IF BitSet(it, rt) THEN 1 ELSE 0)]

\* recordCountForIteration, as a mutant that tests bit rt + 1 for record type rt.
recordCountWrongBit(it) ==
    LET baseline == ShiftRight(it, LastRecordType)
    IN  IF baseline = it
        THEN [rt \in RecordTypes |-> 0]
        ELSE [rt \in RecordTypes |->
                baseline * 20 + (IF BitSet(it, rt + 1) THEN 20 ELSE 0)]

\* recordCountForIteration, as a mutant that returns the zero counts for
\* every iteration whose baseline is 0.
recordCountZeroBelow32(it) ==
    LET baseline == ShiftRight(it, LastRecordType)
    IN  IF baseline = 0
        THEN [rt \in RecordTypes |-> 0]
        ELSE [rt \in RecordTypes |->
                baseline * 20 + (IF BitSet(it, rt) THEN 20 ELSE 0)]

\* recordCountForIteration
recordCountForIteration(it) ==
    LET baseline == ShiftRight(it, LastRecordType)
    IN  IF baseline = it
        THEN [rt \in RecordTypes |-> 0]
        ELSE [rt \in RecordTypes |->
                baseline * 20 + (IF BitSet(it, rt) THEN 20 ELSE 0)]

(***************************************************************************)
(* The retrying transaction executor, crdb.ExecuteTx, around a body whose  *)
(* run on the committed store gives `result`.                              *)
(*   - the attempt ends the transaction: a body error is returned with the *)
(*     transaction rolled back, otherwise the body's writes are committed; *)
(*   - the attempt meets a retryable conflict: its writes are rolled back  *)
(*     and the body is run again;                                          *)
(*   - the store fails with a non-retryable error, which is returned.      *)
(***************************************************************************)
ExecuteTx(result, Committed, Failed, RolledBack) ==
    \/ /\ attempts' = 0
       /\ local' = ZeroLocal
       /\ conc' = conc
       /\ query' = query
       /\ IF result.err
          THEN store' = store /\ Failed
          ELSE store' = result.st /\ Committed
    \/ /\ attempts < MaxRetries
       /\ attempts' = attempts + 1
       /\ store' = store
       /\ local' = result.local
       /\ conc' = conc
       /\ query' = query
       /\ RolledBack
    \/ /\ attempts' = 0
       /\ local' = ZeroLocal
       /\ store' = store
       /\ conc' = conc
       /\ query' = query
       /\ Failed

NoTx == UNCHANGED <<store, attempts, local, conc, query>>

Goto(p, ni, nj, na) == pc' = p /\ i' = ni /\ j' = nj /\ a' = na

\* A step of the load phase that moves on to position (p, ni, nj, na).
LoadStep(p, ni, nj, na, nuser) ==
    /\ Goto(p, ni, nj, na)
    /\ user' = nuser
    /\ UNCHANGED <<mode, iteration, counts, keys, kidx, err, cerr, teardowns,
                   granted, last>>

\* A rolled-back attempt of a load or removal transaction: the driver stays
\* where it is.
SamePlace ==
    UNCHANGED <<pc, i, j, a, user, mode, iteration, counts, keys, kidx, err,
                cerr, teardowns, granted, last>>

\* runWithCounts without its deferred function: prepareData's result is
\* returned and removeData is never called.
RunDeferredNever(e) ==
    /\ err' = e
    /\ IF e THEN pc' = "fatal" /\ UNCHANGED iteration
       ELSE IF mode = "auto" THEN pc' = "plan" /\ iteration' = iteration + 1
       ELSE pc' = "done" /\ UNCHANGED iteration
    /\ i' = 0 /\ j' = 0 /\ a' = 0 /\ user' = 0
    /\ keys' = <<>>
    /\ kidx' = 0
    /\ UNCHANGED <<mode, counts, cerr, teardowns, granted, last>>

\* runWithCounts' deferred function, as a mutant that runs removeData only
\* when prepareData succeeded.
RunDeferredOnSuccess(e) ==
    /\ err' = e
    /\ IF e
       THEN /\ Goto("fatal", 0, 0, 0)
            /\ UNCHANGED teardowns
       ELSE /\ Goto("findUsers", 0, 0, 0)
            /\ teardowns' = teardowns + 1
    /\ user' = 0
    /\ keys' = <<>>
    /\ kidx' = 0
    /\ UNCHANGED <<mode, iteration, counts, cerr, granted, last>>

\* prepareData returns (e: with an error) and runWithCounts' deferred
\* function calls removeData, which starts with findUsers.
RunDeferred(e) ==
    /\ err' = e
    /\ teardowns' = teardowns + 1
    /\ Goto("findUsers", 0, 0, 0)
    /\ user' = 0
    /\ keys' = <<>>
    /\ kidx' = 0
    /\ UNCHANGED <<mode, iteration, counts, cerr, granted, last>>

\* runWithCounts returns, as a mutant of run whose loop does not advance
\* the iteration counter.
ReturnKeepsIteration ==
    /\ IF err THEN pc' = "fatal"
       ELSE IF mode = "auto" THEN pc' = "plan"
       ELSE pc' = "done"
    /\ i' = 0 /\ j' = 0 /\ a' = 0 /\ user' = 0
    /\ keys' = <<>>
    /\ kidx' = 0
    /\ UNCHANGED <<mode, iteration, counts, err, cerr, teardowns, granted, last>>

\* runWithCounts returns, as a mutant of run that drops the returned error.
ReturnIgnoresError ==
    /\ IF mode = "auto" THEN pc' = "plan" /\ iteration' = iteration + 1
       ELSE pc' = "done" /\ UNCHANGED iteration
    /\ i' = 0 /\ j' = 0 /\ a' = 0 /\ user' = 0
    /\ keys' = <<>>
    /\ kidx' = 0
    /\ UNCHANGED <<mode, counts, err, cerr, teardowns, granted, last>>

\* runWithCounts returns without having loaded anything, or after
\* removeData returned nil: run starts the next iteration unless
\* prepareData's error is returned, which main reports with log.Fatal; in
\* custom mode main returns.
ReturnFromRunWithCounts ==
    /\ IF err THEN pc' = "fatal" /\ UNCHANGED iteration
       ELSE IF mode = "auto" THEN pc' = "plan" /\ iteration' = iteration + 1
       ELSE pc' = "done" /\ UNCHANGED iteration
    /\ i' = 0 /\ j' = 0 /\ a' = 0 /\ user' = 0
    /\ keys' = <<>>
    /\ kidx' = 0
    /\ UNCHANGED <<mode, counts, err, cerr, teardowns, granted, last>>

\* The deferred function, as a mutant that reports removeData's error and
\* lets runWithCounts return.
TeardownErrorLogged ==
    /\ cerr' = TRUE
    /\ IF err THEN pc' = "fatal" /\ UNCHANGED iteration
       ELSE IF mode = "auto" THEN pc' = "plan" /\ iteration' = iteration + 1
       ELSE pc' = "done" /\ UNCHANGED iteration
    /\ i' = 0 /\ j' = 0 /\ a' = 0 /\ user' = 0
    /\ keys' = <<>>
    /\ kidx' = 0
    /\ UNCHANGED <<mode, counts, err, teardowns, granted, last>>

\* removeData returned an error: the deferred function panics with it.
TeardownFailed ==
    /\ cerr' = TRUE
    /\ pc' = "panicked"
    /\ UNCHANGED <<i, j, a, user, keys, kidx, mode, iteration, counts, err,
                   teardowns, granted, last>>

(***************************************************************************)
(* The iteration driver: run and runWithCounts.                            *)
(***************************************************************************)
\* run: plan the counts of the next iteration.
Plan ==
    /\ pc = "plan"
    /\ mode = "auto"
    /\ iteration <= MaxIteration
    /\ counts' = recordCountForIteration(iteration)
    /\ pc' = "validate"
    /\ teardowns' = 0
    /\ NoTx
    /\ UNCHANGED <<mode, iteration, i, j, a, user, keys, kidx, err, cerr,
                   granted, last>>

\* runWithCounts, as a mutant whose validity check does not return.
SkipFallsThrough ==
    /\ pc = "validate"
    /\ ~sane(counts)
    /\ NoTx
    /\ LoadStep("addUsers", 0, 0, 0, 0)

\* runWithCounts: counts that are not sane are skipped.
Skip ==
    /\ pc = "validate"
    /\ ~sane(counts)
    /\ NoTx
    /\ ReturnFromRunWithCounts

\* runWithCounts, as a mutant that calls prepareData without its validity
\* check.
StartLoadUnchecked ==
    /\ pc = "validate"
    /\ NoTx
    /\ IF sane(counts)
       THEN LoadStep("addUsers", 0, 0, 0, 0)
       ELSE LoadStep("panicked", 0, 0, 0, 0)

\* runWithCounts: sane counts are loaded by prepareData, which panics on
\* counts that are not sane.
StartLoad ==
    /\ pc = "validate"
    /\ sane(counts)
    /\ NoTx
    /\ IF sane(counts)
       THEN LoadStep("addUsers", 0, 0, 0, 0)
       ELSE LoadStep("panicked", 0, 0, 0, 0)

(***************************************************************************)
(* The load phase: prepareData.                                            *)
(***************************************************************************)
AddUser ==
    /\ pc = "addUsers"
    /\ i < counts[Users]
    /\ ExecuteTx(addUser(store, i),
                 LoadStep("addUsers", i + 1, 0, 0, 0),
                 RunDeferred(TRUE),
                 SamePlace)

\* addUsers returns, as a mutant of prepareData that goes on to the
\* memberships before the groups.
AddUsersReturnSkipsGroups ==
    /\ pc = "addUsers"
    /\ i >= counts[Users]
    /\ NoTx
    /\ LoadStep("assignUsersToGroups", 0, 0, 0, 0)

AddUsersReturn ==
    /\ pc = "addUsers"
    /\ i >= counts[Users]
    /\ NoTx
    /\ LoadStep("addGroups", 0, 0, 0, 0)

AddGroup ==
    /\ pc = "addGroups"
    /\ i < counts[Groups]
    /\ ExecuteTx(addGroup(store, i),
                 LoadStep("addGroups", i + 1, 0, 0, 0),
                 RunDeferred(TRUE),
                 SamePlace)

AddGroupsReturn ==
    /\ pc = "addGroups"
    /\ i >= counts[Groups]
    /\ NoTx
    /\ LoadStep("assignUsersToGroups", 0, 0, 0, 0)

\* assignUsersToGroups: one slot of group i; afterwards user++ and
\* user = user % users, which panics when users is 0.
AddUserToGroup ==
    /\ pc = "assignUsersToGroups"
    /\ i < counts[Groups]
    /\ j < counts[Members]
    /\ ExecuteTx(addUserToGroup(store, i, user),
                 IF counts[Users] = 0
                 THEN LoadStep("panicked", i, j, 0, user + 1)
                 ELSE LoadStep("assignUsersToGroups", i, j + 1, 0,
                               (user + 1) % counts[Users]),
                 RunDeferred(TRUE),
                 SamePlace)

\* assignUsersToGroups moves to the next group, as a mutant that starts
\* every group at user 0.
NextGroupResetsUser ==
    /\ pc = "assignUsersToGroups"
    /\ i < counts[Groups]
    /\ j >= counts[Members]
    /\ NoTx
    /\ LoadStep("assignUsersToGroups", i + 1, 0, 0, 0)

\* assignUsersToGroups: the slots of group i are filled.
NextGroup ==
    /\ pc = "assignUsersToGroups"
    /\ i < counts[Groups]
    /\ j >= counts[Members]
    /\ NoTx
    /\ LoadStep("assignUsersToGroups", i + 1, 0, 0, user)

AssignUsersToGroupsReturn ==
    /\ pc = "assignUsersToGroups"
    /\ i >= counts[Groups]
    /\ NoTx
    /\ LoadStep("addUserResource", 0, 0, 0, 0)

\* assignUserPermissions: the resource of permission i.
AddUserResource ==
    /\ pc = "addUserResource"
    /\ i < counts[UserPermissions]
    /\ ExecuteTx(addResource(store, userResourceName(i)),
                 LoadStep("allowUser", i, 0, 0, 0),
                 RunDeferred(TRUE),
                 SamePlace)

\* allowUserAccessToResource: action a of user j on the resource of
\* permission i.
AllowUser ==
    /\ pc = "allowUser"
    /\ j < counts[Users]
    /\ ExecuteTx(allowUserAccessToResource(store, userResourceName(i), j,
                                           Actions[a + 1], AttemptLocal(local)),
                 IF a + 1 < Len(Actions)
                 THEN LoadStep("allowUser", i, j, a + 1, 0)
                 ELSE LoadStep("allowUser", i, j + 1, 0, 0),
                 RunDeferred(TRUE),
                 SamePlace)

\* assignUserPermissions: every user was granted the resource of permission i.
NextUserPermission ==
    /\ pc = "allowUser"
    /\ j >= counts[Users]
    /\ NoTx
    /\ LoadStep("addUserResource", i + 1, 0, 0, 0)

AssignUserPermissionsReturn ==
    /\ pc = "addUserResource"
    /\ i >= counts[UserPermissions]
    /\ NoTx
    /\ LoadStep("addGroupResource", 0, 0, 0, 0)

\* assignGroupPermissions: the resource of permission i.
AddGroupResource ==
    /\ pc = "addGroupResource"
    /\ i < counts[GroupPermissions]
    /\ ExecuteTx(addResource(store, groupResourceName(i)),
                 LoadStep("allowGroup", i, 0, 0, 0),
                 RunDeferred(TRUE),
                 SamePlace)

\* allowGroupAccessToResource: action a of group j on the resource of
\* permission i.
AllowGroup ==
    /\ pc = "allowGroup"
    /\ j < counts[Groups]
    /\ ExecuteTx(allowGroupAccessToResource(store, groupResourceName(i), j,
                                            Actions[a + 1], AttemptLocal(local)),
                 IF a + 1 < Len(Actions)
                 THEN LoadStep("allowGroup", i, j, a + 1, 0)
                 ELSE LoadStep("allowGroup", i, j + 1, 0, 0),
                 RunDeferred(TRUE),
                 SamePlace)

\* assignGroupPermissions: every group was granted the resource of permission i.
NextGroupPermission ==
    /\ pc = "allowGroup"
    /\ j >= counts[Groups]
    /\ NoTx
    /\ LoadStep("addGroupResource", i + 1, 0, 0, 0)

\* assignGroupPermissions and with it prepareData return nil.
PrepareDataReturn ==
    /\ pc = "addGroupResource"
    /\ i >= counts[GroupPermissions]
    /\ NoTx
    /\ RunDeferred(FALSE)

(***************************************************************************)
(* Teardown: removeData.                                                   *)
(***************************************************************************)
\* A discovery transaction (findUsers, findGroups, findResources) over
\* `rows`.  The slice is declared outside the transaction closure: what a
\* rolled-back attempt appended stays in it.  An attempt is rolled back
\* before its query returned a row or after its loop has run.
Discover(rows, next) ==
    ExecuteTx(Ok(store),
              /\ keys' = AppendKeys(keys, rows)
              /\ kidx' = 0
              /\ pc' = next
              /\ UNCHANGED <<i, j, a, user, mode, iteration, counts, err, cerr,
                             teardowns, granted, last>>,
              TeardownFailed,
              /\ keys' \in {keys, AppendKeys(keys, rows)}
              /\ UNCHANGED <<pc, i, j, a, user, kidx, mode, iteration, counts,
                             err, cerr, teardowns, granted, last>>)

\* One removal transaction of the range loop over the discovered keys.
Remove(result) ==
    ExecuteTx(result,
              /\ kidx' = kidx + 1
              /\ UNCHANGED <<pc, i, j, a, user, keys, mode, iteration, counts,
                             err, cerr, teardowns, granted, last>>,
              TeardownFailed,
              SamePlace)

\* The range loop is over: the next phase of removeData starts.
NextPhase(next) ==
    /\ pc' = next
    /\ keys' = <<>>
    /\ kidx' = 0
    /\ NoTx
    /\ UNCHANGED <<i, j, a, user, mode, iteration, counts, err, cerr,
                   teardowns, granted, last>>

FindUsers == pc = "findUsers" /\ Discover(store.users, "removeUsers")

RemoveUser ==
    /\ pc = "removeUsers"
    /\ kidx < Len(keys)
    /\ Remove(removeUser(store, keys[kidx + 1]))

RemoveUsersReturn ==
    /\ pc = "removeUsers"
    /\ kidx >= Len(keys)
    /\ NextPhase("findGroups")

FindGroups == pc = "findGroups" /\ Discover(store.groups, "removeGroups")

RemoveGroup ==
    /\ pc = "removeGroups"
    /\ kidx < Len(keys)
    /\ Remove(removeGroup(store, keys[kidx + 1]))

RemoveGroupsReturn ==
    /\ pc = "removeGroups"
    /\ kidx >= Len(keys)
    /\ NextPhase("findResources")

FindResources == pc = "findResources" /\ Discover(store.resources, "removeResources")

RemoveResource ==
    /\ pc = "removeResources"
    /\ kidx < Len(keys)
    /\ Remove(removeResource(store, keys[kidx + 1]))

\* removeResources and with it removeData return nil; the deferred function
\* and runWithCounts return.
RemoveDataReturn ==
    /\ pc = "removeResources"
    /\ kidx >= Len(keys)
    /\ NoTx
    /\ ReturnFromRunWithCounts

(***************************************************************************)
(* The program: main creates the schema and either loads the counts given  *)
(* with -custom once or runs the iterations.                               *)
(***************************************************************************)
CustomCounts ==
    {c \in [RecordTypes -> 0 .. MaxUsers] :
        /\ c[Groups] <= MaxGroups
        /\ c[Members] <= MaxMembers
        /\ c[UserPermissions] <= MaxUserPermissions
        /\ c[GroupPermissions] <= MaxGroupPermissions}

NoHistory ==
    /\ granted = [user |-> <<>>, group |-> <<>>]
    /\ last = [kind |-> "none", action |-> "", attempts |-> 0, before |-> {}]
    /\ conc = <<>>
    /\ query = [rows |-> <<>>, rowsErr |-> FALSE, userid |-> "", ret |-> "none"]

Init ==
    /\ store = EmptyStore
    /\ mode \in {"custom", "auto"}
    /\ iteration = 0
    /\ IF mode = "custom"
       THEN counts \in CustomCounts /\ pc = "validate"
       ELSE counts = [rt \in RecordTypes |-> 0] /\ pc = "plan"
    /\ i = 0 /\ j = 0 /\ a = 0 /\ user = 0
    /\ attempts = 0
    /\ keys = <<>>
    /\ kidx = 0
    /\ err = FALSE
    /\ cerr = FALSE
    /\ local = ZeroLocal
    /\ teardowns = 0
    /\ NoHistory

Next ==
    \/ Plan
    \/ Skip
    \/ StartLoad
    \/ AddUser
    \/ AddUsersReturn
    \/ AddGroup
    \/ AddGroupsReturn
    \/ AddUserToGroup
    \/ NextGroup
    \/ AssignUsersToGroupsReturn
    \/ AddUserResource
    \/ AllowUser
    \/ NextUserPermission
    \/ AssignUserPermissionsReturn
    \/ AddGroupResource
    \/ AllowGroup
    \/ NextGroupPermission
    \/ PrepareDataReturn
    \/ FindUsers
    \/ RemoveUser
    \/ RemoveUsersReturn
    \/ FindGroups
    \/ RemoveGroup
    \/ RemoveGroupsReturn
    \/ FindResources
    \/ RemoveResource
    \/ RemoveDataReturn

Spec == Init /\ [][Next]_vars

(***************************************************************************)
(* The upsert transactions on their own: user "0", group "0" and one       *)
(* resource exist, and any action is granted to either principal, one      *)
(* transaction after the other.  i holds the principal kind (0 user,       *)
(* 1 group) and a the action of the transaction in progress.               *)
(***************************************************************************)
UpsertResource == userResourceName(0)

UpsertStore ==
    addResource(addGroup(addUser(EmptyStore, 0).st, 0).st, UpsertResource).st

InitUpsert ==
    /\ store = UpsertStore
    /\ pc = "upsert"
    /\ mode = "custom"
    /\ iteration = 0
    /\ counts = [rt \in RecordTypes |-> 0]
    /\ i = 0 /\ j = 0 /\ a = 0 /\ user = 0
    /\ attempts = 0
    /\ keys = <<>>
    /\ kidx = 0
    /\ err = FALSE
    /\ cerr = FALSE
    /\ local = ZeroLocal
    /\ teardowns = 0
    /\ NoHistory

\* The ACE rows of the principal of `kind` on the resource.
PairAces(st, kind) ==
    {e \in st.aces :
        /\ e.resource_id \in IdsByKey(st.resources, UpsertResource)
        /\ IF kind = "user"
           THEN e.user_id \in IdsByKey(st.users, Itoa(0))
           ELSE e.group_id \in IdsByKey(st.groups, Itoa(0))}

Grant(kind, k, result) ==
    /\ pc = "upsert"
    /\ Len(granted.user) + Len(granted.group) < MaxGrants
    /\ attempts > 0 => (a = k /\ i = (IF kind = "user" THEN 0 ELSE 1))
    /\ ExecuteTx(result,
                 /\ granted' = [granted EXCEPT ![kind] = Append(@, Actions[k + 1])]
                 /\ last' = [kind |-> kind, action |-> Actions[k + 1],
                             attempts |-> attempts, before |-> PairAces(store, kind)]
                 /\ a' = 0 /\ i' = 0,
                 /\ a' = 0 /\ i' = 0
                 /\ UNCHANGED <<granted, last>>,
                 /\ a' = k /\ i' = (IF kind = "user" THEN 0 ELSE 1)
                 /\ UNCHANGED <<granted, last>>)
    /\ UNCHANGED <<pc, j, user, mode, iteration, counts, keys, kidx, err, cerr,
                   teardowns>>

GrantUser ==
    \E k \in 0 .. (Len(Actions) - 1) :
        Grant("user", k,
              allowUserAccessToResource(store, UpsertResource, 0, Actions[k + 1],
                                        AttemptLocal(local)))

GrantGroup ==
    \E k \in 0 .. (Len(Actions) - 1) :
        Grant("group", k,
              allowGroupAccessToResource(store, UpsertResource, 0, Actions[k + 1],
                                         AttemptLocal(local)))

NextUpsert == GrantUser \/ GrantGroup

SpecUpsert == InitUpsert /\ [][NextUpsert]_vars

(***************************************************************************)
(* Properties.                                                             *)
(***************************************************************************)
LoadPcs ==
    {"addUsers", "addGroups", "assignUsersToGroups", "addUserResource",
     "allowUser", "addGroupResource", "allowGroup"}

TeardownPcs ==
    {"findUsers", "removeUsers", "findGroups", "removeGroups", "findResources",
     "removeResources"}

\* C1: in every committed store state there is at most one ACE row per
\* (user, resource) pair and at most one per (group, resource) pair.
C1_OneAcePerPair ==
    \A e1 \in store.aces : \A e2 \in store.aces :
        ( /\ e1.resource_id = e2.resource_id
          /\ \/ e1.user_id # NULL /\ e1.user_id = e2.user_id
             \/ e1.group_id # NULL /\ e1.group_id = e2.group_id )
        => e1 = e2

\* A group grant is being retried while a user holds all four actions on a
\* resource and a group ACE exists.
C1_Witness ==
    /\ pc = "allowGroup"
    /\ attempts > 0
    /\ a > 0
    /\ \E e \in store.aces :
          e.user_id # NULL /\ e.actions = "create,read,update,delete"
    /\ \E e \in store.aces : e.group_id # NULL

RECURSIVE JoinComma(_)
JoinComma(seq) ==
    IF Len(seq) = 1 THEN seq[1] ELSE seq[1] \o "," \o JoinComma(Tail(seq))

\* C2: after the actions a1..ak were granted to a pair that had no ACE, in
\* k committed upsert transactions, the pair has exactly one ACE row, its
\* action string is a1,...,ak joined by commas in grant order (an action
\* granted twice appears twice), and every grant after the first updated
\* the row the first one inserted.
C2_GrantsJoinInOrder ==
    /\ \A kind \in {"user", "group"} :
          IF granted[kind] = <<>>
          THEN PairAces(store, kind) = {}
          ELSE \E e \in PairAces(store, kind) :
                  /\ PairAces(store, kind) = {e}
                  /\ e.actions = JoinComma(granted[kind])
    /\ (last.kind # "none" /\ last.before # {}) =>
          {e.id : e \in PairAces(store, last.kind)} = {e.id : e \in last.before}

\* create, read and read again were granted to the user.
C2_Witness ==
    /\ granted.user = <<"create", "read", "read">>
    /\ \E e \in PairAces(store, "user") : e.actions = "create,read,read"

\* C3: an upsert transaction committed after at least one rolled-back
\* attempt leaves exactly one ACE row for the pair, holding the action
\* string of before the transaction with the granted action joined to it
\* once.
C3_RetriedUpsertGrantsOnce ==
    (last.kind # "none" /\ last.attempts >= 1) =>
        \E e \in PairAces(store, last.kind) :
            /\ PairAces(store, last.kind) = {e}
            /\ IF last.before = {}
               THEN e.actions = last.action
               ELSE \E b \in last.before :
                       /\ last.before = {b}
                       /\ e.id = b.id
                       /\ e.actions = b.actions \o "," \o last.action

\* The transaction that inserted the pair's row committed on a retry.
C3_Witness ==
    /\ last.kind = "user"
    /\ last.attempts >= 1
    /\ last.before = {}
    /\ Cardinality(PairAces(store, "user")) = 1

\* C4: when removeData has returned nil, after a load phase that completed
\* or failed, all five tables are empty.
C4_TeardownEmptiesStore ==
    (teardowns = 1 /\ ~cerr /\ pc \in {"plan", "done", "fatal"}) => AllEmpty(store)

\* The load of {users: 2, groups: 1, members: 1, user-permissions: 1,
\* group-permissions: 1} failed after at least four rows were committed
\* and teardown has completed.
C4_Witness ==
    /\ pc = "fatal"
    /\ err
    /\ ~cerr
    /\ teardowns = 1
    /\ counts = RecordCount(2, 1, 1, 1, 1)
    /\ store.nextId >= 5
    /\ AllEmpty(store)

\* The table a removal loop works on.
TableOf(p) ==
    IF p = "removeUsers" THEN store.users
    ELSE IF p = "removeGroups" THEN store.groups
    ELSE store.resources

\* C5: a transaction body re-executed after rolled-back attempts hands the
\* caller what a single committed attempt hands it: when a discovery
\* transaction has returned, the slice holds each stored business key
\* exactly once.
C5_DiscoveryRetrySafe ==
    (pc \in {"removeUsers", "removeGroups", "removeResources"} /\ kidx = 0)
        => keys = AppendKeys(<<>>, TableOf(pc))

\* C6: when a load phase begins, all five tables are empty.
C6_LoadStartsEmpty ==
    (pc \in {"plan", "validate"} \/ (pc = "addUsers" /\ i = 0)) => AllEmpty(store)

\* The load of iteration 3 begins: iterations 1 and 2 created rows and
\* removed them.
C6_Witness ==
    /\ mode = "auto"
    /\ iteration = 3
    /\ pc = "addUsers"
    /\ i = 0
    /\ store.nextId > 1

\* C7: once the load phase has started, removeData is called exactly once
\* for the iteration: not before the load phase has ended, when it ends
\* with or without an error, and before the driver leaves the iteration.
C7_TeardownOnce ==
    [][ /\ pc \in LoadPcs =>
            /\ teardowns = 0
            /\ \/ pc' \in LoadPcs /\ teardowns' = 0
               \/ pc' = "findUsers" /\ teardowns' = 1
        /\ pc \in TeardownPcs =>
            /\ teardowns = 1
            /\ teardowns' = 1
            /\ pc' \in TeardownPcs \cup {"plan", "done", "fatal", "panicked"}
      ]_vars

\* Teardown runs after a load phase that returned an error.
C7_Witness ==
    /\ pc \in TeardownPcs
    /\ err
    /\ teardowns = 1
    /\ ~AllEmpty(store)

\* C8: when removeData returns an error the process panics: from then on
\* nothing happens, no further teardown phase, no further iteration,
\* whether or not the load phase had failed.
C8_TeardownFailureIsFatal ==
    [][ /\ ~cerr
        /\ cerr' => (pc \in TeardownPcs /\ pc' = "panicked")
      ]_vars

\* Teardown failed after a failed load phase.
C8_Witness ==
    /\ cerr
    /\ err
    /\ pc = "panicked"

\* The validator's rule as the specification states it.
ValidRule(c) ==
    /\ c[Members] > 0 => (c[Groups] > 0 /\ c[Users] > 0)
    /\ c[Members] <= c[Users]
    /\ c[UserPermissions] > 0 => c[Users] > 0
    /\ c[GroupPermissions] > 0 => c[Groups] > 0

\* C9: sane accepts a tuple if and only if members > 0 implies groups > 0
\* and users > 0, members <= users, user-permissions > 0 implies users > 0
\* and group-permissions > 0 implies groups > 0.
C9_SaneIffRule ==
    /\ sane(counts) <=> ValidRule(counts)
    /\ sane([rt \in RecordTypes |-> 0])
    /\ (counts[Members] > 0 /\ counts[Groups] = 0) => ~sane(counts)

\* A tuple with members > 0 and no group was rejected and skipped.
C9_Witness ==
    /\ mode = "custom"
    /\ pc = "done"
    /\ teardowns = 0
    /\ counts[Members] > 0
    /\ counts[Groups] = 0
    /\ ~sane(counts)

\* C10: an iteration whose tuple the validator's rule rejects is skipped
\* in one step: no transaction is attempted, removeData is not called, the
\* store is unchanged, no error is reported, and run goes on with the next
\* iteration counter (in custom mode main returns).
C10_InvalidIsSkipped ==
    [][ (pc = "validate" /\ ~ValidRule(counts)) =>
            /\ store' = store
            /\ attempts' = 0
            /\ teardowns' = 0
            /\ ~err' /\ ~cerr'
            /\ counts' = counts
            /\ IF mode = "auto"
               THEN pc' = "plan" /\ iteration' = iteration + 1
               ELSE pc' = "done"
      ]_vars

\* Iteration 4, {0, 0, 20, 0, 0}, was skipped and iteration 5 is next.
C10_Witness ==
    /\ mode = "auto"
    /\ pc = "plan"
    /\ iteration = 5
    /\ counts = RecordCount(0, 0, 20, 0, 0)
    /\ teardowns = 0
    /\ AllEmpty(store)

(***************************************************************************)
(* The planner on its own: recordCountForIteration applied to any counter  *)
(* up to MaxCounter, whatever counts the previous iteration left.          *)
(***************************************************************************)
InitPlanner ==
    /\ store = EmptyStore
    /\ pc = "planner"
    /\ mode = "auto"
    /\ iteration \in 0 .. MaxCounter
    /\ counts \in {RecordCount(0, 0, 0, 0, 0), RecordCount(20, 40, 20, 40, 20)}
    /\ i = 0 /\ j = 0 /\ a = 0 /\ user = 0
    /\ attempts = 0
    /\ keys = <<>>
    /\ kidx = 0
    /\ err = FALSE
    /\ cerr = FALSE
    /\ local = ZeroLocal
    /\ teardowns = 0
    /\ NoHistory

PlanCounter ==
    /\ pc = "planner"
    /\ counts' = recordCountForIteration(iteration)
    /\ pc' = "planned"
    /\ NoTx
    /\ UNCHANGED <<mode, iteration, i, j, a, user, keys, kidx, err, cerr,
                   teardowns, granted, last>>

NextPlanner == PlanCounter

SpecPlanner == InitPlanner /\ [][NextPlanner]_vars

\* C11: every component of the planned counts is a non-negative multiple
\* of 20, whatever the counter and whatever counts were there before.
C11_MultiplesOfTwenty ==
    pc = "planned" =>
        \A rt \in RecordTypes : counts[rt] >= 0 /\ counts[rt] % 20 = 0

\* Counter 33 was planned: 40 users, 20 of everything else.
C11_Witness ==
    /\ pc = "planned"
    /\ iteration = 33
    /\ counts = RecordCount(40, 20, 20, 20, 20)

\* The counter written as 32 * q + r, with r < 32 given by its five low bits.
LowBits(c) ==
    CHOOSE bits \in [RecordTypes -> {0, 1}] :
        \E q \in 0 .. c :
            c = 32 * q + bits[0] + 2 * bits[1] + 4 * bits[2] + 8 * bits[3]
                    + 16 * bits[4]

\* C12: for a counter c whose shift by 5 differs from c, the count of
\* record type t is 20 * (c >> 5), plus 20 when bit t of c is set.
C12_BaselinePlusBits ==
    (pc = "planned" /\ iteration \div 32 # iteration) =>
        \A rt \in RecordTypes :
            counts[rt] = 20 * (iteration \div 32) + 20 * LowBits(iteration)[rt]

\* Counter 70 = 64 + 4 + 2 was planned.
C12_Witness ==
    /\ pc = "planned"
    /\ iteration = 70
    /\ counts = RecordCount(40, 60, 60, 40, 40)

\* C13 as claimed: for every counter below 32 the shifted value equals the
\* counter and the planner returns the zero counts.
C13_ZeroBelow32 ==
    (pc = "planned" /\ iteration < 32) =>
        /\ ShiftRight(iteration, LastRecordType) = iteration
        /\ counts = RecordCount(0, 0, 0, 0, 0)

\* C13 as amended: for a counter below 32 the shifted value is 0, which
\* equals the counter only for counter 0; the planner returns the zero
\* counts for counter 0 only, and for 1..31 it returns 20 for every record
\* type whose bit is set in the counter and 0 for the others.
C13_ZeroOnlyAtZero ==
    (pc = "planned" /\ iteration < 32) =>
        /\ ShiftRight(iteration, LastRecordType) = 0
        /\ (ShiftRight(iteration, LastRecordType) = iteration) <=> (iteration = 0)
        /\ (counts = RecordCount(0, 0, 0, 0, 0)) <=> (iteration = 0)
        /\ \A rt \in RecordTypes : counts[rt] = 20 * LowBits(iteration)[rt]

\* Counter 1 was planned: 20 users and nothing else.
C13_Witness ==
    /\ pc = "planned"
    /\ iteration = 1
    /\ counts = RecordCount(20, 0, 0, 0, 0)

\* C14: when prepareData has returned nil for the counts (U, G, M, UP, GP),
\* the store holds exactly the users "0".."U-1", the groups "0".."G-1",
\* G*M membership rows, the resources user-resource-0..UP-1 and
\* group-resource-0..GP-1, and U*UP + G*GP ACE rows.
C14_LoadedDataset ==
    (pc = "findUsers" /\ ~err) =>
        LET U == counts[Users]
            G == counts[Groups]
            M == counts[Members]
            UP == counts[UserPermissions]
            GP == counts[GroupPermissions]
        IN  /\ {u.key : u \in store.users} = {ToString(n) : n \in 0 .. (U - 1)}
            /\ Cardinality(store.users) = U
            /\ {g.key : g \in store.groups} = {ToString(n) : n \in 0 .. (G - 1)}
            /\ Cardinality(store.groups) = G
            /\ Cardinality(store.user_groups) = G * M
            /\ {r.key : r \in store.resources} =
                  {"user-resource-" \o ToString(n) : n \in 0 .. (UP - 1)}
                  \cup {"group-resource-" \o ToString(n) : n \in 0 .. (GP - 1)}
            /\ Cardinality(store.resources) = UP + GP
            /\ Cardinality(store.aces) = U * UP + G * GP

\* The load of {3, 2, 2, 1, 1} has completed: users "0", "1", "2", four
\* memberships, two resources and five ACE rows.
C14_Witness ==
    /\ pc = "findUsers"
    /\ ~err
    /\ counts = RecordCount(3, 2, 2, 1, 1)
    /\ {u.key : u \in store.users} = {"0", "1", "2"}
    /\ Cardinality(store.user_groups) = 4
    /\ Cardinality(store.aces) = 5

(***************************************************************************)
(* Two upsert transactions for the same (principal, resource) pair run by  *)
(* two clients at once.  The store is serializable: a transaction reads    *)
(* the snapshot taken when its attempt began, and it commits only when no  *)
(* other transaction has committed since; otherwise the attempt fails with *)
(* a retryable conflict, is rolled back, and crdb.ExecuteTx runs the body  *)
(* again on a fresh snapshot.                                              *)
(***************************************************************************)
Clients == {1, 2}

\* The store with the pair's ACE as the earlier grants `prior` left it.
RECURSIVE GrantedStore(_, _, _)
GrantedStore(st, kind, prior) ==
    IF prior = <<>> THEN st
    ELSE GrantedStore(
            (IF kind = "user"
             THEN allowUserAccessToResource(st, UpsertResource, 0, Head(prior), ZeroLocal)
             ELSE allowGroupAccessToResource(st, UpsertResource, 0, Head(prior), ZeroLocal)).st,
            kind, Tail(prior))

ActionSet == {Actions[n] : n \in 1 .. Len(Actions)}

InitConcurrent ==
    /\ pc = "concurrent"
    /\ mode = "custom"
    /\ iteration = 0
    /\ counts = [rt \in RecordTypes |-> 0]
    /\ i = 0 /\ j = 0 /\ a = 0 /\ user = 0
    /\ attempts = 0
    /\ keys = <<>>
    /\ kidx = 0
    /\ err = FALSE
    /\ cerr = FALSE
    /\ local = ZeroLocal
    /\ teardowns = 0
    /\ last = [kind |-> "none", action |-> "", attempts |-> 0, before |-> {}]
    /\ \E kind \in {"user", "group"} :
       \E prior \in {<<>>} \cup {<<x>> : x \in ActionSet} :
       \E a1 \in ActionSet : \E a2 \in ActionSet \ {a1} :
          /\ granted = [user |-> IF kind = "user" THEN prior ELSE <<>>,
                        group |-> IF kind = "group" THEN prior ELSE <<>>]
          /\ store = GrantedStore(UpsertStore, kind, prior)
          /\ query = [rows |-> <<>>, rowsErr |-> FALSE, userid |-> "", ret |-> "none"]
          /\ conc = [t \in Clients |->
                        [state |-> "idle", kind |-> kind,
                         action |-> IF t = 1 THEN a1 ELSE a2,
                         snap |-> EmptyStore, attempts |-> 0]]

\* The body of client t's transaction, run on its snapshot.
ClientBody(t) ==
    IF conc[t].kind = "user"
    THEN allowUserAccessToResource(conc[t].snap, UpsertResource, 0,
                                   conc[t].action, AttemptLocal(local))
    ELSE allowGroupAccessToResource(conc[t].snap, UpsertResource, 0,
                                    conc[t].action, AttemptLocal(local))

ConcFrame ==
    UNCHANGED <<pc, mode, iteration, counts, i, j, a, user, attempts, keys,
                kidx, err, cerr, local, teardowns, last, query>>

\* An attempt of client t begins: the closure runs on the current snapshot.
BeginTx(t) ==
    /\ pc = "concurrent"
    /\ conc[t].state = "idle"
    /\ conc' = [conc EXCEPT ![t].state = "running", ![t].snap = store]
    /\ UNCHANGED <<store, granted>>
    /\ ConcFrame

\* Client t's attempt commits: nothing was committed since its snapshot.
CommitTx(t) ==
    /\ pc = "concurrent"
    /\ conc[t].state = "running"
    /\ store = conc[t].snap
    /\ LET result == ClientBody(t)
       IN  IF result.err
           THEN /\ conc' = [conc EXCEPT ![t].state = "failed"]
                /\ UNCHANGED <<store, granted>>
           ELSE /\ store' = result.st
                /\ conc' = [conc EXCEPT ![t].state = "done"]
                /\ granted' = [granted EXCEPT ![conc[t].kind] = Append(@, conc[t].action)]
    /\ ConcFrame

\* Client t's attempt conflicts with a transaction committed since its
\* snapshot: it is rolled back and the body will run again.
ConflictTx(t) ==
    /\ pc = "concurrent"
    /\ conc[t].state = "running"
    /\ store # conc[t].snap
    /\ conc' = [conc EXCEPT ![t].state = "idle", ![t].attempts = @ + 1]
    /\ UNCHANGED <<store, granted>>
    /\ ConcFrame

NextConcurrent ==
    \E t \in Clients : BeginTx(t) \/ CommitTx(t) \/ ConflictTx(t)

SpecConcurrent == InitConcurrent /\ [][NextConcurrent]_vars

\* C15: two concurrent upsert transactions granting different actions to
\* the same pair never leave two ACE rows for the pair, and when both have
\* committed the single row holds the earlier actions followed by both
\* granted actions, in either order.
C15_ConcurrentGrantsMerge ==
    \A kind \in {"user", "group"} :
        /\ Cardinality(PairAces(store, kind)) <= 1
        /\ (\A t \in Clients : conc[t].state = "done" /\ conc[t].kind = kind) =>
              LET g == granted[kind]
              IN  /\ Len(g) >= 2
                  /\ {g[Len(g) - 1], g[Len(g)]} = {conc[t].action : t \in Clients}
                  /\ \E e \in PairAces(store, kind) :
                        /\ e.actions = JoinComma(g)
                        /\ store.aces = {e}

\* Both clients began on the same snapshot without a row for the pair; one
\* committed the insert, the other was rolled back, ran again and updated.
C15_Witness ==
    /\ pc = "concurrent"
    /\ \A t \in Clients : conc[t].state = "done"
    /\ \E t \in Clients : conc[t].attempts = 1
    /\ \E e \in PairAces(store, "user") : e.actions = "create,read"

\* C16: in every committed store state every membership row references an
\* existing user and an existing group, and every ACE row references an
\* existing resource and an existing principal, a user or a group.
C16_ReferencesExist ==
    /\ \A m \in store.user_groups :
          /\ \E u \in store.users : u.id = m.user_id
          /\ \E g \in store.groups : g.id = m.group_id
    /\ \A e \in store.aces :
          /\ \E r \in store.resources : r.id = e.resource_id
          /\ e.user_id # NULL \/ e.group_id # NULL
          /\ e.user_id # NULL => \E u \in store.users : u.id = e.user_id
          /\ e.group_id # NULL => \E g \in store.groups : g.id = e.group_id

\* Teardown has removed the first user of a full dataset; the memberships
\* and ACEs of the other users and of the groups are still stored.
C16_Witness ==
    /\ pc = "removeUsers"
    /\ counts = RecordCount(3, 2, 2, 1, 1)
    /\ Cardinality(store.users) = 2
    /\ \E m \in store.user_groups : TRUE
    /\ \E e \in store.aces : e.user_id # NULL
    /\ \E e \in store.aces : e.group_id # NULL

\* The sub-step of prepareData a position belongs to.
SubStep(p) ==
    CASE p = "addUsers" -> 1
      [] p = "addGroups" -> 2
      [] p = "assignUsersToGroups" -> 3
      [] p \in {"addUserResource", "allowUser"} -> 4
      [] p \in {"addGroupResource", "allowGroup"} -> 5

\* Everything the sub-steps before sub-step r write is committed in st.
EarlierCommitted(st, c, r) ==
    /\ r > 1 => Cardinality(st.users) = c[Users]
    /\ r > 2 => Cardinality(st.groups) = c[Groups]
    /\ r > 3 => Cardinality(st.user_groups) = c[Groups] * c[Members]
    /\ r > 4 => /\ Cardinality({e \in st.aces : e.user_id # NULL})
                      = c[Users] * c[UserPermissions]
                /\ \A e \in st.aces :
                      e.user_id # NULL => e.actions = JoinComma(Actions)

\* C17: within a load phase the position moves through the sub-steps add
\* users, add groups, assign memberships, user permissions, group
\* permissions in this order, one at a time, starting at the first; it moves
\* on only when no transaction is being retried, and while a sub-step runs
\* everything the earlier sub-steps write is committed.
C17_SubStepsInOrder ==
    [][pc' \in LoadPcs =>
          /\ pc \notin LoadPcs => pc' = "addUsers"
          /\ pc \in LoadPcs =>
                /\ SubStep(pc') - SubStep(pc) \in {0, 1}
                /\ SubStep(pc') # SubStep(pc) => attempts = 0 /\ store' = store
          /\ EarlierCommitted(store', counts', SubStep(pc'))]_vars

\* The last sub-step is running on a full dataset after a retried
\* transaction.
C17_Witness ==
    /\ pc = "allowGroup"
    /\ counts = RecordCount(3, 2, 2, 1, 1)
    /\ attempts = 1
    /\ Cardinality(store.user_groups) = 4
    /\ Cardinality({e \in store.aces : e.user_id # NULL}) = 3

\* C18: a mutation of the load phase that fails ends the load at that
\* point: the failing step leaves the committed rows as they are and goes
\* straight to teardown; from then on the error stays recorded, no load
\* position is entered again, the store changes only by teardown's removals,
\* the iteration counter stays, and leaving teardown normally ends the
\* driver with the error.  An error is recorded by a load step only.
C18_LoadFailureStopsLoad ==
    [][/\ (~err /\ err') =>
             /\ pc \in LoadPcs
             /\ pc' = "findUsers"
             /\ store' = store
             /\ iteration' = iteration
       /\ err =>
             /\ err'
             /\ iteration' = iteration
             /\ counts' = counts
             /\ pc' \in TeardownPcs \cup {"fatal", "panicked"}
             /\ store' # store =>
                   pc \in {"removeUsers", "removeGroups", "removeResources"}
             /\ (pc \in TeardownPcs /\ pc' \notin TeardownPcs /\ ~cerr') =>
                   pc' = "fatal" /\ AllEmpty(store')]_vars

\* The third iteration's load failed after users were committed; teardown
\* removed them and the driver ended with the error.
C18_Witness ==
    /\ pc = "fatal"
    /\ err
    /\ mode = "auto"
    /\ iteration = 3
    /\ AllEmpty(store)
    /\ store.nextId > 1

\* The membership row of user ordinal u in group ordinal g.
MembershipOf(st, g, u) ==
    [user_id |-> ScanId(IdsByKey(st.users, Itoa(u))),
     group_id |-> ScanId(IdsByKey(st.groups, Itoa(g)))]

\* The memberships of the first n slots, slot s of group g being slot
\* number g*M + s, each assigned the user (g*M + s) mod U.
RoundRobin(st, c, n) ==
    {MembershipOf(st, k \div c[Members], k % c[Users]) : k \in 0 .. n - 1}

\* C19: while the memberships are assigned, the slots filled so far hold
\* exactly the users (g*M + s) mod U, the next slot (i, j) gets the user
\* (i*M + j) mod U, and a load that went past the memberships holds all G*M
\* of them.
C19_RoundRobin ==
    /\ (pc = "assignUsersToGroups" /\ i < counts[Groups] /\ j <= counts[Members]) =>
          /\ store.user_groups = RoundRobin(store, counts, i * counts[Members] + j)
          /\ counts[Users] > 0 => user = (i * counts[Members] + j) % counts[Users]
    /\ (pc \in LoadPcs /\ SubStep(pc) > 3) =>
          store.user_groups = RoundRobin(store, counts, counts[Groups] * counts[Members])

\* Three users, two groups of two: the second group got user 2 in its
\* first slot and the counter wrapped to user 0 for the second.
C19_Witness ==
    /\ pc = "assignUsersToGroups"
    /\ counts = RecordCount(3, 2, 2, 1, 1)
    /\ i = 1 /\ j = 1
    /\ user = 0
    /\ MembershipOf(store, 1, 2) \in store.user_groups
    /\ Cardinality(store.user_groups) = 3

(***************************************************************************)
(* The driver is one sequential process: a step that can be taken is taken.*)
(***************************************************************************)
SpecLive == Init /\ [][Next]_vars /\ WF_vars(Next)

\* No transaction of the run has failed and the process has not ended.
NoFailure == ~err /\ ~cerr /\ pc \notin {"fatal", "panicked"}

\* C20: the iteration counter changes only by one, upwards, when
\* runWithCounts returns to the loop of run, and the loop is re-entered only
\* with the counter advanced, so each counter is planned once and in
\* order; an iteration that is skipped advances it at once; and in a run of
\* the driver in which no transaction ever fails every counter up to
\* MaxIteration is eventually planned and the driver goes on past it.
C20_EveryCounterPlanned ==
    /\ [][/\ iteration' # iteration =>
                iteration' = iteration + 1 /\ pc # "plan" /\ pc' = "plan"
          /\ (pc # "plan" /\ pc' = "plan") => iteration' = iteration + 1
          /\ (pc = "plan" /\ pc' # "plan") =>
                /\ pc' = "validate"
                /\ counts' = recordCountForIteration(iteration)
          /\ (mode = "auto" /\ pc = "validate" /\ ~sane(counts)) =>
                pc' = "plan" /\ iteration' = iteration + 1 /\ store' = store]_vars
    /\ \A n \in 0 .. MaxIteration :
          (mode = "auto" /\ []NoFailure) =>
              <>(pc = "validate" /\ iteration = n
                   /\ counts = recordCountForIteration(n))
    /\ (mode = "auto" /\ []NoFailure) =>
          <>(pc = "plan" /\ iteration = MaxIteration + 1)

\* Counter 5 is planned after counter 4 was skipped: 4 plans members
\* without users, which is not valid.
C20_Witness ==
    /\ mode = "auto"
    /\ pc = "validate"
    /\ iteration = 5
    /\ ~sane(recordCountForIteration(4))
    /\ counts = recordCountForIteration(5)
    /\ NoFailure

\* C21: whenever assignUsersToGroups is about to fill a slot, the user and
\* the group of the slot exist and their membership row is not stored yet,
\* so the insert meets no primary-key conflict; and the counter values of
\* the slots of one group are pairwise distinct modulo the user count.
C21_NoDuplicateMembership ==
    (pc = "assignUsersToGroups" /\ i < counts[Groups] /\ j < counts[Members]) =>
        /\ IdsByKey(store.users, Itoa(user)) # {}
        /\ IdsByKey(store.groups, Itoa(i)) # {}
        /\ MembershipOf(store, i, user) \notin store.user_groups
        /\ ~addUserToGroup(store, i, user).err
        /\ \A s \in 0 .. counts[Members] - 1 :
           \A t \in 0 .. counts[Members] - 1 :
              s # t => (i * counts[Members] + s) % counts[Users]
                          # (i * counts[Members] + t) % counts[Users]

\* Two users, two groups of two: the last slot of the second group is
\* about to get user 1, who is a member of the first group already.
C21_Witness ==
    /\ pc = "assignUsersToGroups"
    /\ counts = RecordCount(2, 2, 2, 0, 0)
    /\ i = 1 /\ j = 1
    /\ user = 1
    /\ MembershipOf(store, 0, 1) \in store.user_groups
    /\ Cardinality(store.user_groups) = 3

\* C22: the step of assignUsersToGroups that commits a membership and
\* executes user = user % users runs with users > 0 and does not panic;
\* every load position is reached with counts that pass sane, so the
\* assertion of prepareData does not fire; the process panics only from the
\* deferred teardown, with removeData's error.
C22_NoPanicInLoad ==
    [][/\ (pc = "assignUsersToGroups" /\ i < counts[Groups] /\ j < counts[Members]
             /\ store' # store) =>
             /\ counts[Users] > 0
             /\ pc' = "assignUsersToGroups"
             /\ user' = (user + 1) % counts[Users]
       /\ pc' \in LoadPcs => sane(counts')
       /\ (pc = "validate" /\ pc' # "validate") => pc' # "panicked"
       /\ (pc # "panicked" /\ pc' = "panicked") => (pc \in TeardownPcs /\ cerr')]_vars

\* One user, one group of one member: the membership is committed and the
\* modulo wrapped the counter from 1 to 0.
C22_Witness ==
    /\ pc = "assignUsersToGroups"
    /\ counts = RecordCount(1, 1, 1, 0, 0)
    /\ i = 0 /\ j = 1
    /\ user = 0
    /\ Cardinality(store.user_groups) = 1

(***************************************************************************)
(* The query program: performQueries and main.  The variable err is the    *)
(* err declared by `rows, err := db.Query(...)` in the loop body, i is the *)
(* loop counter ii and keys is the slice userids.                          *)
(***************************************************************************)
MaxQueries == 2

\* The users 0 .. n - 1, as addUsers stores them.
RECURSIVE WithUsers(_, _)
WithUsers(st, n) ==
    IF n = 0 THEN st ELSE addUser(WithUsers(st, n - 1), n - 1).st

\* The users 0 .. n - 1 granted `read` on the resource, as
\* assignUserPermissions stores them.
RECURSIVE WithUserAces(_, _, _)
WithUserAces(st, resource, n) ==
    IF n = 0 THEN st
    ELSE allowUserAccessToResource(WithUserAces(st, resource, n - 1), resource,
                                   n - 1, "read", ZeroLocal).st

\* The stores the query program may find: n users, with or without an ACE
\* each on one resource.
QueryStores ==
    {WithUsers(EmptyStore, n) : n \in 0 .. MaxUsers}
        \cup {WithUserAces(addResource(WithUsers(EmptyStore, n),
                                       userResourceName(0)).st,
                           userResourceName(0), n) : n \in 1 .. MaxUsers}

NoQuery == [rows |-> <<>>, rowsErr |-> FALSE, userid |-> "", ret |-> "none"]

InitQuery ==
    /\ pc = "queryUsers"
    /\ mode = "custom"
    /\ iteration = 0
    /\ counts = [rt \in RecordTypes |-> 0]
    /\ i = 0 /\ j = 0 /\ a = 0 /\ user = 0
    /\ attempts = 0
    /\ keys = <<>>
    /\ kidx = 0
    /\ err = FALSE
    /\ cerr = FALSE
    /\ local = ZeroLocal
    /\ teardowns = 0
    /\ granted = [user |-> <<>>, group |-> <<>>]
    /\ last = [kind |-> "none", action |-> "", attempts |-> 0, before |-> {}]
    /\ conc = <<>>
    /\ query = NoQuery
    /\ store \in QueryStores

QueryFrame ==
    UNCHANGED <<store, mode, iteration, counts, j, a, user, attempts, kidx,
                cerr, local, teardowns, granted, last, conc>>

\* SELECT users.uid FROM users: the rows in primary-key order.
UserRows(st) == AppendKeys(<<>>, st.users)

\* The join of aces, users and resources for users.uid = userid: one row,
\* here its actions column, for each ACE of the user.
AceRows(st, userid) ==
    LET rows == {e \in st.aces :
                    /\ e.user_id \in IdsByKey(st.users, userid)
                    /\ \E r \in st.resources : r.id = e.resource_id}
    IN  [n \in 1 .. Cardinality(rows) |-> RowsInOrder(rows)[n].actions]

\* `return e` in performQueries: nil when e is nil.
ReturnError(e) ==
    /\ pc' = "returned"
    /\ query' = [query EXCEPT !.ret = IF e THEN "error" ELSE "nil"]

\* rows, err := db.Query("SELECT users.uid as uid from users")
QueryUsers ==
    /\ pc = "queryUsers"
    /\ i <= MaxQueries
    /\ \/ /\ err' = TRUE
          /\ ReturnError(TRUE)
          /\ UNCHANGED <<i, keys>>
       \/ /\ err' = FALSE
          /\ query' = [NoQuery EXCEPT !.rows = UserRows(store)]
          /\ keys' = <<>>
          /\ pc' = "scanUsers"
          /\ UNCHANGED i
    /\ QueryFrame

\* for rows.Next() { rows.Scan(&userid); userids = append(userids, userid) }
\* Next returns false at the end of the rows or on an error, which
\* rows.Err then reports.
NextUser ==
    /\ pc = "scanUsers"
    /\ \/ /\ query.rows # <<>>
          /\ keys' = Append(keys, Head(query.rows))
          /\ query' = [query EXCEPT !.rows = Tail(@)]
          /\ UNCHANGED <<pc, i, err>>
       \/ /\ query.rows # <<>>
          /\ ReturnError(TRUE)
          /\ UNCHANGED <<i, keys, err>>
       \/ /\ query.rows = <<>>
          /\ pc' = "usersDone"
          /\ UNCHANGED <<i, keys, err, query>>
       \/ /\ pc' = "usersDone"
          /\ query' = [query EXCEPT !.rowsErr = TRUE]
          /\ UNCHANGED <<i, keys, err>>
    /\ QueryFrame

\* if rows.Err() != nil { return err }, with err the result of db.Query;
\* then `continue` on an empty listing, else a user is drawn at random.
UsersDone ==
    /\ pc = "usersDone"
    /\ IF query.rowsErr
       THEN ReturnError(err) /\ UNCHANGED <<i, keys, err>>
       ELSE IF Len(keys) = 0
       THEN /\ pc' = "queryUsers"
            /\ i' = i + 1
            /\ UNCHANGED <<keys, err, query>>
       ELSE \E n \in 1 .. Len(keys) :
               /\ pc' = "queryAces"
               /\ query' = [query EXCEPT !.userid = keys[n]]
               /\ UNCHANGED <<i, keys, err>>
    /\ QueryFrame

\* rows, err = db.Query("SELECT ... WHERE users.uid = $1", userid)
QueryAces ==
    /\ pc = "queryAces"
    /\ \/ /\ err' = TRUE
          /\ ReturnError(TRUE)
          /\ UNCHANGED <<i, keys>>
       \/ /\ err' = FALSE
          /\ query' = [query EXCEPT !.rows = AceRows(store, query.userid),
                                    !.rowsErr = FALSE]
          /\ pc' = "scanAces"
          /\ UNCHANGED <<i, keys>>
    /\ QueryFrame

\* for rows.Next() { }
NextAce ==
    /\ pc = "scanAces"
    /\ \/ /\ query.rows # <<>>
          /\ query' = [query EXCEPT !.rows = Tail(@)]
          /\ UNCHANGED <<pc, i, keys, err>>
       \/ /\ query.rows = <<>>
          /\ pc' = "acesDone"
          /\ UNCHANGED <<i, keys, err, query>>
       \/ /\ pc' = "acesDone"
          /\ query' = [query EXCEPT !.rowsErr = TRUE]
          /\ UNCHANGED <<i, keys, err>>
    /\ QueryFrame

\* The check of rows.Err after the ACE rows, as a mutant that returns the
\* err of db.Query the way the check after the user listing does.
AcesDoneReturnsQueryErr ==
    /\ pc = "acesDone"
    /\ IF query.rowsErr
       THEN ReturnError(err) /\ UNCHANGED <<i, keys, err>>
       ELSE /\ pc' = "queryUsers"
            /\ i' = i + 1
            /\ UNCHANGED <<keys, err, query>>
    /\ QueryFrame

\* if err := rows.Err(); err != nil { return err }; then the timing is
\* logged and the loop goes on.
AcesDone ==
    /\ pc = "acesDone"
    /\ IF query.rowsErr
       THEN ReturnError(TRUE) /\ UNCHANGED <<i, keys, err>>
       ELSE /\ pc' = "queryUsers"
            /\ i' = i + 1
            /\ UNCHANGED <<keys, err, query>>
    /\ QueryFrame

\* main: log.Fatal on an error, else "Success" is printed.
MainReturns ==
    /\ pc = "returned"
    /\ pc' = IF query.ret = "error" THEN "fatal" ELSE "success"
    /\ UNCHANGED <<i, keys, err, query>>
    /\ QueryFrame

NextQuery ==
    \/ QueryUsers
    \/ NextUser
    \/ UsersDone
    \/ QueryAces
    \/ NextAce
    \/ AcesDone
    \/ MainReturns

SpecQuery == InitQuery /\ [][NextQuery]_vars

\* C23: performQueries never returns nil, so main never prints "Success".
C23_NeverReturnsNil ==
    /\ query.ret # "nil"
    /\ pc # "success"

\* Apart from the check of rows.Err after the user listing, every failure
\* is returned as an error: performQueries returns nil only from that
\* check, with the row-iteration error set and the listing query's err nil.
C23_NilOnlyFromUserRowsErr ==
    [][query'.ret = "nil" /\ query.ret # "nil" =>
          pc = "usersDone" /\ query.rowsErr /\ ~err]_vars

\* The user listing broke off after one of three rows and main printed
\* "Success".
C23_Witness ==
    /\ pc = "success"
    /\ query.rowsErr
    /\ keys = <<"0">>
    /\ Cardinality(store.users) = 3
====
